---- MODULE Spec2Model ----
(***************************************************************************)
(* Library management REST API: the in-memory catalog `books`, the guarded *)
(* create / update / delete handlers, the single-book lookup and the       *)
(* filter -> sort -> paginate pipeline of the list endpoint.               *)
(*                                                                         *)
(* Text is modelled as a sequence of code points, so that case folding     *)
(* (filters) and ordinal comparison (sorting) are computed, not assumed.   *)
(* The handlers are those of the api package (api/routes/book_routes.py);   *)
(* the single-file app.py repeats them line for line, except that its      *)
(* update handler does not catch the KeyError of the post_load hook, which  *)
(* then surfaces as a 500 instead of a 400.  `impl` is the implementation  *)
(* that is running.                                                        *)
(* A request is served in one step and answered in the next, so a state    *)
(* with a pending answer shows the request, the store before it (`prev`),  *)
(* the store after it (`books`) and the response.                          *)
(***************************************************************************)
EXTENDS Integers, Sequences, FiniteSets, TLC

VARIABLES books, now, impl, req, resp, prev

vars == <<books, now, impl, req, resp, prev>>

----------------------------------------------------------------------------
(* Bounds of the model *)

\* most records the store holds at once
MaxBooks == 3
\* number of milliseconds the clock can advance
MaxTicks == 1
\* first clock reading (milliseconds), above every seed id
ClockStart == 1000

----------------------------------------------------------------------------
(* Configuration *)

API_KEY == "podapati@1"
MAX_BOOKS_PER_PAGE == 20
MIN_BOOKS_PER_PAGE == 1

----------------------------------------------------------------------------
(* Text *)

CleanCode == <<67, 108, 101, 97, 110, 32, 67, 111, 100, 101>>
RobertCMartin == <<82, 111, 98, 101, 114, 116, 32, 67, 46, 32, 77, 97, 114, 116, 105, 110>>
DeepLearning == <<68, 101, 101, 112, 32, 76, 101, 97, 114, 110, 105, 110, 103>>
IanGoodfellow == <<73, 97, 110, 32, 71, 111, 111, 100, 102, 101, 108, 108, 111, 119>>

\* "a" and "B": lower-case a sorts after upper-case B in ordinal order
TextA == <<97>>
TextB == <<66>>
\* "A", "MARTIN"
TextUpperA == <<65>>
TextMARTIN == <<77, 65, 82, 84, 73, 78>>

\* str.lower() on ASCII text
Lower(t) == [i \in DOMAIN t |-> IF t[i] \in 65..90 THEN t[i] + 32 ELSE t[i]]

\* the `in` operator on str: sub occurs in t as a contiguous substring
Contains(sub, t) ==
    \E i \in 0..(Len(t) - Len(sub)) : SubSeq(t, i + 1, i + Len(sub)) = sub

\* str < str: ordinal, lexicographic
TextLess(s, t) ==
    \/ Len(s) < Len(t) /\ SubSeq(t, 1, Len(s)) = s
    \/ \E i \in 1..Len(s) :
          /\ i <= Len(t)
          /\ SubSeq(s, 1, i - 1) = SubSeq(t, 1, i - 1)
          /\ s[i] < t[i]

\* str(n) for a one-digit number
Digits(n) == <<48 + n>>

----------------------------------------------------------------------------
(* Book records *)

Book(id, title, author) == [id |-> id, title |-> title, author |-> author]

to_dict(b) == [id |-> b.id, title |-> b.title, author |-> b.author]

NoBook == Book(0, <<>>, <<>>)

SeedBooks == << Book(1, CleanCode, RobertCMartin), Book(2, DeepLearning, IanGoodfellow) >>

\* next((b for b in books if b.id == book_id), None): index of the first match, 0 for None
FindBook(bs, book_id) ==
    IF \E i \in 1..Len(bs) : bs[i].id = book_id
    THEN CHOOSE i \in 1..Len(bs) :
            /\ bs[i].id = book_id
            /\ \A j \in 1..(i - 1) : bs[j].id # book_id
    ELSE 0

\* list.remove(book): the element at index i is dropped, the rest keep their order
RemoveAt(bs, i) == SubSeq(bs, 1, i - 1) \o SubSeq(bs, i + 1, Len(bs))

----------------------------------------------------------------------------
(* Request payloads *)

Absent == [kind |-> "absent", s |-> <<>>, n |-> 0]
Null == [kind |-> "null", s |-> <<>>, n |-> 0]
Num(n) == [kind |-> "num", s |-> <<>>, n |-> n]
Str(t) == [kind |-> "str", s |-> t, n |-> 0]

\* str(v) of a JSON value
PyStr(v) == IF v.kind = "str" THEN v.s ELSE IF v.kind = "num" THEN Digits(v.n) ELSE <<>>


NoData == [kind |-> "none", title |-> Absent, author |-> Absent]
ListData == [kind |-> "list", title |-> Absent, author |-> Absent]
Dict(t, a) == [kind |-> "dict", title |-> t, author |-> a]

\* the title of a JSON object: missing, null, the number 7, "a", "B"
TitleVals == {Absent, Null, Num(7), Str(TextA), Str(TextB)}
\* its author: missing, null, "a"
AuthorVals == {Absent, Null, Str(TextA)}

\* JSON bodies: null, a non-empty array, and every object over title / author
Bodies == {NoData, ListData} \cup {Dict(t, a) : t \in TitleVals, a \in AuthorVals}

\* `not data`
Falsy(data) ==
    \/ data.kind = "none"
    \/ data.kind = "dict" /\ data.title = Absent /\ data.author = Absent

NoHeader == [present |-> FALSE, value |-> ""]
Header(v) == [present |-> TRUE, value |-> v]
Keys == {NoHeader, Header(""), Header("podapati@"), Header(API_KEY)}

----------------------------------------------------------------------------
(* Responses *)

NoResp ==
    [status |-> 0, kind |-> "none", error |-> "", messages |-> {}, book |-> NoBook,
     books |-> <<>>, total_books |-> 0, page |-> 0, limit |-> 0]

ErrorResp(status, error, messages) ==
    [NoResp EXCEPT !.status = status, !.kind = "error", !.error = error,
                   !.messages = messages]

BookResp(status, b) ==
    [NoResp EXCEPT !.status = status, !.kind = "book", !.book = to_dict(b)]

DeletedResp(bs) ==
    [NoResp EXCEPT !.status = 200, !.kind = "deleted",
                   !.books = [i \in DOMAIN bs |-> to_dict(bs[i])]]

ListResp(bs) ==
    [NoResp EXCEPT !.status = 200, !.kind = "list",
                   !.books = [i \in DOMAIN bs |-> to_dict(bs[i])]]

PageResp(page, limit, total, bs) ==
    [NoResp EXCEPT !.status = 200, !.kind = "page", !.page = page, !.limit = limit,
                   !.total_books = total,
                   !.books = [i \in DOMAIN bs |-> to_dict(bs[i])]]

\* what a handler returns: the store it leaves and the response it sends
Result(bs, r) == [books |-> bs, resp |-> r]

----------------------------------------------------------------------------
(* Schema: title = fields.Str(required=True), author = fields.Str(required=True) *)

\* a Str field rejects a missing value (unless partial), null, and non-strings
FieldError(v, partial) ==
    \/ v.kind = "absent" /\ ~partial
    \/ v.kind = "null"
    \/ v.kind = "num"

\* field names the validation error carries
FieldErrors(data, partial) ==
    {f \in {"title", "author"} : FieldError(data[f], partial)}

\* post_load hook: {"title": str(data["title"]), "author": str(data["author"])};
\* `data` holds only the fields that were supplied, so a missing one is a KeyError
make_book(data) ==
    IF data.title.kind = "absent" \/ data.author.kind = "absent"
    THEN [outcome |-> "KeyError", title |-> Absent, author |-> Absent, messages |-> {}]
    ELSE [outcome |-> "ok", title |-> Str(PyStr(data.title)),
          author |-> Str(PyStr(data.author)), messages |-> {}]

\* book_schema.load(data, partial=...)
load(data, partial) ==
    IF data.kind # "dict"
    THEN [outcome |-> "ValidationError", title |-> Absent, author |-> Absent,
          messages |-> {"_schema"}]
    ELSE IF FieldErrors(data, partial) # {}
    THEN [outcome |-> "ValidationError", title |-> Absent, author |-> Absent,
          messages |-> FieldErrors(data, partial)]
    ELSE make_book(data)

\* validated_data.get(name, default)
GetOr(v, default) == IF v.kind = "absent" THEN default ELSE v

\* `x is not None`
NotNone(v) == v.kind \notin {"absent", "null"}

----------------------------------------------------------------------------
(* Access guard *)

\* faulty variant: any non-empty key is accepted
AuthorizedAnyKey(key) == key.present /\ key.value # ""

\* key and key == API_KEY
Authorized(key) == key.present /\ key.value # "" /\ key.value = API_KEY

\* the decorator: run the handler's result, or answer 401 without running it
require_api_key(key, bs, result) ==
    IF Authorized(key) THEN result
    ELSE Result(bs, ErrorResp(401, "Unauthorized", {}))

----------------------------------------------------------------------------
(* Handlers *)

\* new_id = int(time.time() * 1000)
NewId(t) == t

\* GET /books/<id>
get_book(bs, book_id) ==
    LET i == FindBook(bs, book_id) IN
    IF i # 0 THEN BookResp(200, bs[i])
    ELSE ErrorResp(404, "Book not found", {})

\* POST /books (api), POST /add_book (app)
add_book(bs, t, data) ==
    IF Falsy(data) THEN Result(bs, ErrorResp(400, "No data provided", {}))
    ELSE LET validated_data == load(data, FALSE) IN
         IF validated_data.outcome # "ok"
         THEN Result(bs, ErrorResp(400, validated_data.outcome, validated_data.messages))
         ELSE LET new_book == Book(NewId(t),
                                   PyStr(GetOr(validated_data.title, Str(<<>>))),
                                   PyStr(GetOr(validated_data.author, Str(<<>>))))
              IN Result(Append(bs, new_book), BookResp(201, new_book))

\* faulty variant: the body is validated before the record is looked up
update_bookValidateFirst(bs, book_id, data, im) ==
    IF Falsy(data) THEN Result(bs, ErrorResp(400, "No data provided", {}))
    ELSE LET validated_data == load(data, TRUE) IN
         IF validated_data.outcome = "ValidationError"
         THEN Result(bs, ErrorResp(400, "ValidationError", validated_data.messages))
         ELSE IF validated_data.outcome = "KeyError"
         THEN Result(bs, ErrorResp(IF im = "api" THEN 400 ELSE 500, "KeyError", {}))
         ELSE LET i == FindBook(bs, book_id) IN
              IF i = 0 THEN Result(bs, ErrorResp(404, "Book not found", {}))
              ELSE LET b2 == [bs[i] EXCEPT !.title = PyStr(validated_data.title),
                                           !.author = PyStr(validated_data.author)]
                   IN Result([bs EXCEPT ![i] = b2], BookResp(200, b2))

\* faulty variant: each field is checked and applied in turn, so a valid title
\* is stored before a bad author rejects the request
update_bookFieldByField(bs, book_id, data, im) ==
    IF Falsy(data) THEN Result(bs, ErrorResp(400, "No data provided", {}))
    ELSE LET i == FindBook(bs, book_id) IN
         IF i = 0 THEN Result(bs, ErrorResp(404, "Book not found", {}))
         ELSE IF data.kind # "dict"
         THEN Result(bs, ErrorResp(400, "ValidationError", {"_schema"}))
         ELSE IF FieldError(data.title, TRUE)
         THEN Result(bs, ErrorResp(400, "ValidationError", {"title"}))
         ELSE LET b1 == IF NotNone(data.title)
                        THEN [bs[i] EXCEPT !.title = PyStr(data.title)] ELSE bs[i]
              IN IF FieldError(data.author, TRUE)
                 THEN Result([bs EXCEPT ![i] = b1],
                             ErrorResp(400, "ValidationError", {"author"}))
                 ELSE LET b2 == IF NotNone(data.author)
                                THEN [b1 EXCEPT !.author = PyStr(data.author)] ELSE b1
                      IN Result([bs EXCEPT ![i] = b2], BookResp(200, b2))

\* PUT /books/<id>
update_book(bs, book_id, data, im) ==
    IF Falsy(data) THEN Result(bs, ErrorResp(400, "No data provided", {}))
    ELSE LET i == FindBook(bs, book_id) IN
         IF i = 0 THEN Result(bs, ErrorResp(404, "Book not found", {}))
         ELSE LET validated_data == load(data, TRUE) IN
              IF validated_data.outcome = "ValidationError"
              THEN Result(bs, ErrorResp(400, "ValidationError", validated_data.messages))
              ELSE IF validated_data.outcome = "KeyError"
              THEN \* api: `except Exception as e`; app: no clause catches KeyError
                   Result(bs, ErrorResp(IF im = "api" THEN 400 ELSE 500, "KeyError", {}))
              ELSE LET title == validated_data.title
                       author == validated_data.author
                       b1 == IF NotNone(title)
                             THEN [bs[i] EXCEPT !.title = PyStr(title)] ELSE bs[i]
                       b2 == IF NotNone(author)
                             THEN [b1 EXCEPT !.author = PyStr(author)] ELSE b1
                   IN Result([bs EXCEPT ![i] = b2], BookResp(200, b2))

\* DELETE /books/<id>
remove_book(bs, book_id) ==
    LET i == FindBook(bs, book_id) IN
    IF i = 0 THEN Result(bs, ErrorResp(404, "Book not found", {}))
    ELSE Result(RemoveAt(bs, i), DeletedResp(RemoveAt(bs, i)))

----------------------------------------------------------------------------
(* Query pipeline of GET /books *)

NoArg == [present |-> FALSE, n |-> 0, s |-> <<>>, w |-> ""]
IntArg(n) == [NoArg EXCEPT !.present = TRUE, !.n = n]
TextArg(t) == [NoArg EXCEPT !.present = TRUE, !.s = t]
WordArg(w) == [NoArg EXCEPT !.present = TRUE, !.w = w]

\* request.args.get(name, default=d, type=int)
IntGet(arg, d) == IF arg.present THEN arg.n ELSE d

\* request.args.get("order", "asc")
WordGet(arg, d) == IF arg.present THEN arg.w ELSE d

\* `if author:` -- the parameter is given and not empty
Truthy(arg) == arg.present /\ arg.s # <<>>

SelectAuthor(bs, author) ==
    SelectSeq(bs, LAMBDA b : Contains(Lower(author), Lower(b.author)))

SelectTitle(bs, title) ==
    SelectSeq(bs, LAMBDA b : Contains(Lower(title), Lower(b.title)))

\* the two filters, author then title
Filter(bs, author, title) ==
    LET f1 == IF Truthy(author) THEN SelectAuthor(bs, author.s) ELSE bs
    IN IF Truthy(title) THEN SelectTitle(f1, title.s) ELSE f1

\* getattr(x, sort_by) < getattr(y, sort_by)
KeyLess(x, y, sort_by) ==
    IF sort_by = "id" THEN x.id < y.id
    ELSE IF sort_by = "title" THEN TextLess(x.title, y.title)
    ELSE TextLess(x.author, y.author)

Reverse(s) == [i \in 1..Len(s) |-> s[Len(s) + 1 - i]]

\* x goes after every element that is not greater than it
Insert(x, s, sort_by) ==
    LET greater == {i \in 1..Len(s) : KeyLess(x, s[i], sort_by)}
        k == IF greater = {} THEN Len(s) + 1
             ELSE CHOOSE i \in greater : \A j \in greater : i <= j
    IN SubSeq(s, 1, k - 1) \o <<x>> \o SubSeq(s, k, Len(s))

RECURSIVE StableSort(_, _)
\* a stable ascending sort by the key
StableSort(s, sort_by) ==
    IF s = <<>> THEN <<>>
    ELSE Insert(s[Len(s)], StableSort(SubSeq(s, 1, Len(s) - 1), sort_by), sort_by)

\* faulty variant: a reverse sort as the ascending sort reversed
sortedThenReversed(s, sort_by, reverse) ==
    IF reverse THEN Reverse(StableSort(s, sort_by))
    ELSE StableSort(s, sort_by)

\* sorted(xs, key=..., reverse=reverse): a reverse sort is reverse, sort, reverse
sorted(s, sort_by, reverse) ==
    IF reverse THEN Reverse(StableSort(Reverse(s), sort_by))
    ELSE StableSort(s, sort_by)

\* the sorting step
SortStep(s, sort, order) ==
    IF sort.present /\ sort.w \in {"id", "title", "author"}
    THEN sorted(s, sort.w, order = "desc")
    ELSE s

Min(a, b) == IF a < b THEN a ELSE b
Max(a, b) == IF a > b THEN a ELSE b

\* a slice bound: a negative one counts from the end, and both are clipped to the list
SliceIndex(i, len) == IF i < 0 THEN Max(i + len, 0) ELSE Min(i, len)

\* xs[start:end]
Slice(s, start, end) ==
    LET lo == SliceIndex(start, Len(s))
        hi == SliceIndex(end, Len(s))
    IN IF lo >= hi THEN <<>> ELSE SubSeq(s, lo + 1, hi)

\* faulty variant: pages counted from 0
PaginateFromZero(s, page, limit) ==
    LET start == page * limit
        end == start + limit
    IN Slice(s, start, end)

\* the pagination step
Paginate(s, page, limit) ==
    LET start == (page - 1) * limit
        end == start + limit
    IN Slice(s, start, end)

\* len(filtered_books)
TotalBooks(filtered, paginated) == Len(filtered)

\* faulty variant: the page is not checked
ParamErrorLimitOnly(page, limit) ==
    IF limit < MIN_BOOKS_PER_PAGE \/ limit > MAX_BOOKS_PER_PAGE
    THEN "Limit must be between 1 and 20"
    ELSE ""

\* the two parameter checks, "" when both pass
ParamError(page, limit) ==
    IF limit < MIN_BOOKS_PER_PAGE \/ limit > MAX_BOOKS_PER_PAGE
    THEN "Limit must be between 1 and 20"
    ELSE IF page < 1 THEN "Page must be greater than 0"
    ELSE ""

\* GET /books
get_books(bs, args) ==
    LET page == IntGet(args.page, 1)
        limit == IntGet(args.limit, 5)
    IN IF ParamError(page, limit) # ""
       THEN ErrorResp(400, ParamError(page, limit), {})
       ELSE LET filtered_books ==
                    SortStep(Filter(bs, args.author, args.title), args.sort,
                             WordGet(args.order, "asc"))
                paginated_books == Paginate(filtered_books, page, limit)
            IN PageResp(page, limit, TotalBooks(filtered_books, paginated_books),
                        paginated_books)

\* GET /search
search_books(bs, args) == ListResp(Filter(bs, args.author, args.title))

----------------------------------------------------------------------------
(* Requests *)

NoArgs ==
    [page |-> NoArg, limit |-> NoArg, author |-> NoArg, title |-> NoArg,
     sort |-> NoArg, order |-> NoArg]

Req(op, key, book_id, data, args) ==
    [op |-> op, key |-> key, book_id |-> book_id, data |-> data, args |-> args]

NoReq == Req("none", NoHeader, 0, NoData, NoArgs)

\* ids a request may name: the seeds, 3 (never stored), and every clock reading
TargetIds == {1, 2, 3} \cup (ClockStart..(ClockStart + MaxTicks))

PageArgs == {NoArg} \cup {IntArg(n) : n \in {0, 2, 100}}
LimitArgs ==
    {NoArg} \cup {IntArg(n) : n \in {0, 1, 2, MAX_BOOKS_PER_PAGE, MAX_BOOKS_PER_PAGE + 1}}
AuthorArgs == {NoArg, TextArg(<<>>), TextArg(TextMARTIN)}
TitleArgs == {NoArg, TextArg(TextUpperA)}
SortArgs == {NoArg} \cup {WordArg(w) : w \in {"id", "title", "author", "year"}}
OrderArgs == {NoArg} \cup {WordArg(w) : w \in {"desc", "up"}}

QueryArgs ==
    [page : PageArgs, limit : LimitArgs, author : AuthorArgs, title : TitleArgs,
     sort : SortArgs, order : OrderArgs]

SearchArgs ==
    [page : {NoArg}, limit : {NoArg}, author : AuthorArgs, title : TitleArgs,
     sort : {NoArg}, order : {NoArg}]

\* create payloads the schema accepts
ValidBodies == {Dict(Str(t), Str(TextA)) : t \in {TextA, TextB}}

----------------------------------------------------------------------------
(* Actions *)

Init ==
    /\ books = SeedBooks
    /\ now = ClockStart
    /\ impl \in {"api", "app"}
    /\ req = NoReq
    /\ resp = NoResp
    /\ prev = SeedBooks

\* a millisecond passes
Tick ==
    /\ req = NoReq
    /\ now < ClockStart + MaxTicks
    /\ now' = now + 1
    /\ UNCHANGED <<books, impl, req, resp, prev>>

\* the next request is handled to completion
Serve(r, result) ==
    /\ req = NoReq
    /\ req' = r
    /\ prev' = books
    /\ books' = result.books
    /\ resp' = result.resp
    /\ UNCHANGED <<now, impl>>

\* the response is sent
Respond ==
    /\ req # NoReq
    /\ req' = NoReq
    /\ resp' = NoResp
    /\ prev' = books
    /\ UNCHANGED <<books, now, impl>>

AddBook(key, data) ==
    /\ Len(books) < MaxBooks
    /\ Serve(Req("add_book", key, 0, data, NoArgs),
             require_api_key(key, books, add_book(books, now, data)))

UpdateBook(key, book_id, data) ==
    Serve(Req("update_book", key, book_id, data, NoArgs),
          require_api_key(key, books, update_book(books, book_id, data, impl)))

RemoveBook(key, book_id) ==
    Serve(Req("remove_book", key, book_id, NoData, NoArgs),
          require_api_key(key, books, remove_book(books, book_id)))

GetBook(book_id) ==
    Serve(Req("get_book", NoHeader, book_id, NoData, NoArgs),
          Result(books, get_book(books, book_id)))

GetBooks(args) ==
    Serve(Req("get_books", NoHeader, 0, NoData, args),
          Result(books, get_books(books, args)))

SearchBooks(args) ==
    Serve(Req("search_books", NoHeader, 0, NoData, args),
          Result(books, search_books(books, args)))

Create == req = NoReq /\ \E key \in Keys, data \in Bodies : AddBook(key, data)
Update == req = NoReq /\ \E key \in Keys, book_id \in TargetIds, data \in Bodies : UpdateBook(key, book_id, data)
Delete == req = NoReq /\ \E key \in Keys, book_id \in TargetIds : RemoveBook(key, book_id)
Lookup == req = NoReq /\ \E book_id \in TargetIds : GetBook(book_id)

Next == Tick \/ Create \/ Update \/ Delete \/ Lookup \/ Respond

\* every request on the mutating and lookup endpoints, in any order
Spec == Init /\ [][Next]_vars

CreateValid == req = NoReq /\ \E data \in ValidBodies : AddBook(Header(API_KEY), data)
DeleteValid == req = NoReq /\ \E book_id \in TargetIds : RemoveBook(Header(API_KEY), book_id)
List == req = NoReq /\ \E args \in QueryArgs : GetBooks(args)
Search == req = NoReq /\ \E args \in SearchArgs : SearchBooks(args)

NextQuery == Tick \/ CreateValid \/ DeleteValid \/ List \/ Search \/ Respond

\* the read endpoints are the same code in both implementations
InitQuery == Init /\ impl = "api"

\* the read endpoints over every store that accepted creates and deletes build
SpecQuery == InitQuery /\ [][NextQuery]_vars

----------------------------------------------------------------------------
(* Properties of the mutating endpoints, checked under Spec *)

\* the request just served was sent with the configured secret in x-api-key
KeyIsSecret == req.key.present /\ req.key.value = API_KEY

\* the request just served is a create / update / delete
Mutating == req.op \in {"add_book", "update_book", "remove_book"}

\* position in the store before the request of the record the request names
Target == FindBook(prev, req.book_id)

\* C1: no two books in the store have the same id, whatever creates, updates
\* and deletes were served, including two creates in one millisecond.
C1_UniqueIds ==
    \A i, j \in 1..Len(books) : i # j => books[i].id # books[j].id

\* the body supplies exactly one of the two fields, as text
OnlyAuthor == req.data.kind = "dict" /\ req.data.title = Absent /\ req.data.author.kind = "str"
OnlyTitle == req.data.kind = "dict" /\ req.data.author = Absent /\ req.data.title.kind = "str"

\* C2: an authorized update of an existing book that supplies only author, or
\* only title, succeeds: the supplied field takes the supplied value, the
\* omitted field and the id are unchanged.
C2_PartialUpdateSucceeds ==
    (req.op = "update_book" /\ KeyIsSecret /\ Target # 0 /\ (OnlyAuthor \/ OnlyTitle))
    => /\ resp.status = 200
       /\ books = [prev EXCEPT ![Target] =
                      IF OnlyAuthor
                      THEN [prev[Target] EXCEPT !.author = req.data.author.s]
                      ELSE [prev[Target] EXCEPT !.title = req.data.title.s]]

\* C3 as claimed: an authorized update of an id that is not in the store is
\* answered with 404 for every payload, an empty or missing body included.
C3_UnknownIdAlways404 ==
    (req.op = "update_book" /\ KeyIsSecret /\ Target = 0) => resp.status = 404

\* C3: an authorized update of an id that is not in the store is answered with
\* 404 for every non-empty payload, one that would fail validation included,
\* and with 400 when the body is empty or missing; the store is unchanged.
C3_UnknownId404UnlessEmpty ==
    (req.op = "update_book" /\ KeyIsSecret /\ Target = 0)
    => /\ resp.status = (IF Falsy(req.data) THEN 400 ELSE 404)
       /\ books = prev

\* an update of an unknown id whose body would fail validation got 404
C3_Witness ==
    /\ req.op = "update_book" /\ KeyIsSecret /\ Target = 0
    /\ req.data = Dict(Null, Absent)
    /\ resp.status = 404

\* C4: an authorized delete of an id in the store removes exactly one record,
\* the others keep their values and order, the response lists the remaining
\* records, and a GET by that id right afterwards is answered with 404.
C4_DeleteThenGet404 ==
    (req.op = "remove_book" /\ KeyIsSecret /\ Target # 0)
    => /\ Len(books) = Len(prev) - 1
       /\ books = RemoveAt(prev, Target)
       /\ resp.books = books
       /\ get_book(books, req.book_id).status = 404

\* C5: after a successful create returned id i, title t, author a, a GET by id
\* i with no request in between returns a record with that id, title and author.
C5_CreateThenGet ==
    (req.op = "add_book" /\ resp.status = 201)
    => /\ resp.book.title = PyStr(req.data.title)
       /\ resp.book.author = PyStr(req.data.author)
       /\ get_book(books, resp.book.id).status = 200
       /\ get_book(books, resp.book.id).book = resp.book

\* C6: a create, update or delete whose x-api-key is missing, empty or not
\* the secret is answered with 401 and leaves the store as it was; one whose
\* x-api-key is the secret is never answered with 401.
C6_Guard ==
    Mutating => /\ ~KeyIsSecret => (resp.status = 401 /\ books = prev)
                /\ KeyIsSecret => resp.status # 401

\* a full, valid update of a stored book sent with a wrong key was refused
C6_Witness ==
    /\ req.op = "update_book" /\ req.key = Header("podapati@")
    /\ Target # 0
    /\ req.data = Dict(Str(TextB), Str(TextA))
    /\ resp.status = 401
    /\ books = prev

\* C9: a create or update answered with 400 or 404 leaves the store exactly
\* as it was: nothing added, removed, reordered or changed.
C9_ErrorLeavesStore ==
    (req.op \in {"add_book", "update_book"} /\ resp.status \in {400, 404}) => books = prev

\* an update of a stored book with a valid title and a null author was rejected
C9_Witness ==
    /\ req.op = "update_book" /\ KeyIsSecret /\ Target # 0
    /\ req.data = Dict(Str(TextB), Null)
    /\ prev[Target].title # TextB
    /\ resp.status = 400
    /\ books = prev

----------------------------------------------------------------------------
(* Properties of the list endpoint, checked under SpecQuery *)

\* page and limit of the list request just served, defaults applied
ReqPage == IntGet(req.args.page, 1)
ReqLimit == IntGet(req.args.limit, 5)

\* the list request just served passes both parameter checks
ValidPaging ==
    /\ ReqLimit >= MIN_BOOKS_PER_PAGE /\ ReqLimit <= MAX_BOOKS_PER_PAGE
    /\ ReqPage >= 1

\* the store's books that pass the request's filters, in store order
Filtered == Filter(prev, req.args.author, req.args.title)

\* the filtered books as the sorting step leaves them
Ordered == SortStep(Filtered, req.args.sort, WordGet(req.args.order, "asc"))

\* C7: for limit in [1,20] and page >= 1 the list endpoint returns as `books`
\* the elements at positions (page-1)*limit .. (page-1)*limit+limit-1 of the
\* filtered and sorted list, clipped to its length, and as `total_books` the
\* length of the filtered list.
C7_PageIsSlice ==
    (req.op = "get_books" /\ ValidPaging)
    => LET all == Ordered
           start == (ReqPage - 1) * ReqLimit
           n == Max(0, Min(ReqLimit, Len(all) - start))
       IN /\ resp.status = 200
          /\ resp.books = [k \in 1..n |-> to_dict(all[start + k])]
          /\ Len(resp.books) <= ReqLimit
          /\ resp.total_books = Len(Filtered)

\* page 100 of a two-book filtered set out of a three-book store: no books,
\* total_books 2
C7_Witness ==
    /\ req.op = "get_books" /\ ReqPage = 100 /\ ReqLimit = 2
    /\ Len(prev) = 3
    /\ resp.status = 200 /\ resp.books = <<>> /\ resp.total_books = 2

\* C8: a list request with limit < 1, limit > 20 or page < 1 is answered with
\* 400 and no page payload, whatever the filters, the sort and the store,
\* and the store is unchanged.
C8_BadPaging400 ==
    (req.op = "get_books" /\ ~ValidPaging)
    => /\ resp.status = 400
       /\ resp.kind = "error"
       /\ resp.books = <<>> /\ resp.total_books = 0
       /\ books = prev

\* page 0 with a valid limit, a filter that matches and a sort was refused
C8_Witness ==
    /\ req.op = "get_books" /\ ReqPage = 0 /\ ReqLimit = 2
    /\ req.args.author = TextArg(TextMARTIN) /\ req.args.sort = WordArg("title")
    /\ Filtered # <<>>
    /\ resp.status = 400

\* x and y have the same sort key
SameKey(x, y, sort_by) == ~KeyLess(x, y, sort_by) /\ ~KeyLess(y, x, sort_by)

\* `out` holds the books of `in`, those of equal key in the order they have in `in`
KeepsEqualKeysInOrder(out, in, sort_by) ==
    /\ Len(out) = Len(in)
    /\ \A i \in 1..Len(in) :
          SelectSeq(out, LAMBDA b : SameKey(b, in[i], sort_by))
             = SelectSeq(in, LAMBDA b : SameKey(b, in[i], sort_by))

\* C10: with sort = id, title or author the listed books are the filtered
\* books ordered by that field, non-decreasing unless order is desc and then
\* non-increasing, equal keys keeping their filtered order in both directions;
\* with any other sort, or none, they are in the filtered order.
C10_SortStable ==
    (req.op = "get_books" /\ ValidPaging)
    => LET all == Ordered
           given == Filtered
           shown == Paginate(all, ReqPage, ReqLimit)
       IN /\ resp.status = 200
          /\ resp.books = [k \in DOMAIN shown |-> to_dict(shown[k])]
          /\ IF req.args.sort.present /\ req.args.sort.w \in {"id", "title", "author"}
             THEN /\ KeepsEqualKeysInOrder(all, given, req.args.sort.w)
                  /\ \A i, j \in 1..Len(all) :
                        i < j => IF req.args.order = WordArg("desc")
                                 THEN ~KeyLess(all[i], all[j], req.args.sort.w)
                                 ELSE ~KeyLess(all[j], all[i], req.args.sort.w)
             ELSE all = given

\* a descending sort by author listed two books of one author in store order,
\* ahead of a book whose author sorts lower and that the store holds first
C10_Witness ==
    /\ req.op = "get_books" /\ ReqPage = 1 /\ ~req.args.limit.present
    /\ req.args.sort = WordArg("author") /\ req.args.order = WordArg("desc")
    /\ ~req.args.author.present /\ ~req.args.title.present
    /\ Len(prev) = 3
    /\ prev[2].author = prev[3].author /\ prev[2].title # prev[3].title
    /\ TextLess(prev[1].author, prev[2].author)
    /\ resp.books = <<to_dict(prev[2]), to_dict(prev[3]), to_dict(prev[1])>>

====
